---- MODULE Spec2Model ----
(***************************************************************************)
(* Checked numeric wrappers of the Espresso runtime                        *)
(* (src/includes/core/runtime.hpp): NumericWrapper<Derived, T> over the    *)
(* fixed-width integral representations, with the overflow helpers, the    *)
(* converting constructors and the operators built on them.                *)
(*                                                                         *)
(* TLC computes with 32-bit integers, so the widths of short, int and long *)
(* are scaled down (ShortBits, IntBits, LongBits).  The scaling keeps what *)
(* the C++ rules depend on: ByteBits < ShortBits < IntBits < LongBits,     *)
(* every type narrower than int is promoted to int, and int holds every    *)
(* intermediate result of operands narrower than int                       *)
(* (IntBits >= 2 * ShortBits).  The 8-bit types keep their width.          *)
(*                                                                         *)
(* The text part models StringWrapper (src/includes/core/runtime.cpp):     *)
(* the UTF-8 scans of length, at and is_valid_utf8 over a byte string.     *)
(* Spec covers the same-type numeric operators, SpecMixed the mixed-type,  *)
(* reverse and compound operators, SpecText the text operations.           *)
(* SpecSeq runs sequences of compound assignments on one object, SpecScan  *)
(* runs the three scans one loop iteration at a time.                      *)
(***************************************************************************)
EXTENDS Integers, Sequences, FiniteSets, TLC

VARIABLES
    T,        \* the representation of the receiver: [bits, sgn]
    value,    \* NumericWrapper::value, the stored value of the receiver
    before,   \* the stored value when the operation was called
    op,       \* the operation applied last
    argT,     \* the representation of the operand (target type of a conversion)
    arg,      \* the operand: other.value, or the shift count
    res,      \* outcome of the operation: [err, val]
    data,     \* StringWrapper::data, the bytes of the text value
    steps,    \* operations completed on the receiver, or iterations of a scan
    scan,     \* the locals of a running UTF-8 scan: [fn, i, acc, hi]
    pc        \* "constructed": an object awaits its operation; "scanning": a scan
              \* is at its loop head; "done": the operation returned or threw

vars == <<T, value, before, op, argT, arg, res, data, steps, scan, pc>>

\* ------------------------------------------------------------------------
\* Representations
\* ------------------------------------------------------------------------
ByteBits == 8
ShortBits == 11
IntBits == 24
LongBits == 28

Rep(b, s) == [bits |-> b, sgn |-> s]

ByteT == Rep(ByteBits, TRUE)
ShortT == Rep(ShortBits, TRUE)
IntT == Rep(IntBits, TRUE)
LongT == Rep(LongBits, TRUE)
UByteT == Rep(ByteBits, FALSE)
UShortT == Rep(ShortBits, FALSE)
UIntT == Rep(IntBits, FALSE)
ULongT == Rep(LongBits, FALSE)

Types == {ByteT, ShortT, IntT, LongT, UByteT, UShortT, UIntT, ULongT}

\* std::numeric_limits<T>::max(), ::min() and ::lowest() of an integral T
Max(t) == IF t.sgn THEN 2^(t.bits - 1) - 1 ELSE 2^t.bits - 1
Min(t) == IF t.sgn THEN -(2^(t.bits - 1)) ELSE 0

InRange(t, x) == Min(t) <= x /\ x <= Max(t)

\* ------------------------------------------------------------------------
\* The C++ rules the code relies on
\* ------------------------------------------------------------------------
\* static_cast<T>(x) of an integral x: the value modulo 2^bits
Conv(t, x) ==
    LET m == x % (2^t.bits)
    IN  IF t.sgn /\ m >= 2^(t.bits - 1) THEN m - 2^t.bits ELSE m

\* integral promotion: every type narrower than int becomes int
Promote(t) == IF t.bits < IntBits THEN IntT ELSE t

\* usual arithmetic conversions of two integral operand types
Common(t, u) ==
    LET a == Promote(t)
        b == Promote(u)
    IN  IF a = b THEN a
        ELSE IF a.sgn = b.sgn THEN (IF a.bits >= b.bits THEN a ELSE b)
        ELSE LET us == IF a.sgn THEN b ELSE a
                 sg == IF a.sgn THEN a ELSE b
             IN  IF us.bits >= sg.bits THEN us ELSE sg

\* std::common_type_t<V, T>: the type of (cond ? V : T)
CommonType(v, t) == IF v = t THEN t ELSE Common(v, t)

\* x < y, x > y and x == y of an x of type tx and a y of type ty
CmpLt(tx, x, ty, y) == LET c == Common(tx, ty) IN Conv(c, x) < Conv(c, y)
CmpGt(tx, x, ty, y) == LET c == Common(tx, ty) IN Conv(c, x) > Conv(c, y)
CmpEq(tx, x, ty, y) == LET c == Common(tx, ty) IN Conv(c, x) = Conv(c, y)

\* the value of an arithmetic expression of type t whose mathematical value
\* is x: unsigned arithmetic is modulo 2^bits
Arith(t, x) == IF t.sgn THEN x ELSE x % (2^t.bits)

Abs(x) == IF x < 0 THEN -x ELSE x

\* x / y and x % y of C++: the quotient truncated toward zero
CDiv(x, y) ==
    IF (x >= 0) = (y > 0) THEN Abs(x) \div Abs(y) ELSE -(Abs(x) \div Abs(y))
CRem(x, y) == x - y * CDiv(x, y)

\* ------------------------------------------------------------------------
\* Outcomes
\* ------------------------------------------------------------------------
Ok(v) == [err |-> "none", val |-> v]
Throw(e) == [err |-> e, val |-> 0]

\* ------------------------------------------------------------------------
\* Constructors
\* ------------------------------------------------------------------------
\* template NumericWrapper(V v): value(static_cast<T>(v)), then the range
\* check in std::common_type_t<V, T>
ConvertingCtor(t, vt, v) ==
    LET c == CommonType(vt, t)
        max_val == Conv(c, Max(t))
        min_val == Conv(c, Min(t))
        cv == Conv(c, v)
    IN  IF cv > max_val \/ cv < min_val
        THEN Throw("OverflowError")
        ELSE Ok(Conv(t, v))

\* Derived(expr) for an expression of type e: overload resolution takes the
\* explicit NumericWrapper(T v) when e is T, else the converting template
Construct(t, e, v) == IF e = t THEN Ok(v) ELSE ConvertingCtor(t, e, v)

\* ------------------------------------------------------------------------
\* namespace overflow
\* ------------------------------------------------------------------------
\* add_overflow with the upper check off by one (>= for >)
add_overflow_ge(t, a, b) ==
    LET p == Promote(t)
    IN  IF CmpGt(t, b, IntT, 0) /\ ~CmpLt(t, a, p, Arith(p, Max(t) - b))
        THEN [ov |-> TRUE, result |-> 0]
        ELSE IF CmpLt(t, b, IntT, 0) /\ CmpLt(t, a, p, Arith(p, Min(t) - b))
        THEN [ov |-> TRUE, result |-> 0]
        ELSE [ov |-> FALSE, result |-> Conv(t, Arith(p, a + b))]

add_overflow(t, a, b) ==
    LET p == Promote(t)
    IN  IF CmpGt(t, b, IntT, 0) /\ CmpGt(t, a, p, Arith(p, Max(t) - b))
        THEN [ov |-> TRUE, result |-> 0]
        ELSE IF CmpLt(t, b, IntT, 0) /\ CmpLt(t, a, p, Arith(p, Min(t) - b))
        THEN [ov |-> TRUE, result |-> 0]
        ELSE [ov |-> FALSE, result |-> Conv(t, Arith(p, a + b))]

\* sub_overflow with the checks of add_overflow, not mirrored
sub_overflow_unmirrored(t, a, b) ==
    LET p == Promote(t)
    IN  IF CmpGt(t, b, IntT, 0) /\ CmpGt(t, a, p, Arith(p, Max(t) - b))
        THEN [ov |-> TRUE, result |-> 0]
        ELSE IF CmpLt(t, b, IntT, 0) /\ CmpLt(t, a, p, Arith(p, Min(t) - b))
        THEN [ov |-> TRUE, result |-> 0]
        ELSE [ov |-> FALSE, result |-> Conv(t, Arith(p, a - b))]

sub_overflow(t, a, b) ==
    LET p == Promote(t)
    IN  IF CmpLt(t, b, IntT, 0) /\ CmpGt(t, a, p, Arith(p, Max(t) + b))
        THEN [ov |-> TRUE, result |-> 0]
        ELSE IF CmpGt(t, b, IntT, 0) /\ CmpLt(t, a, p, Arith(p, Min(t) + b))
        THEN [ov |-> TRUE, result |-> 0]
        ELSE [ov |-> FALSE, result |-> Conv(t, Arith(p, a - b))]

\* mul_overflow with min() for max() where both operands are negative
mul_overflow_negneg(t, a, b) ==
    LET p == Promote(t)
        ov ==
            IF CmpGt(t, a, IntT, 0)
            THEN IF CmpGt(t, b, IntT, 0)
                 THEN CmpGt(t, a, p, Arith(p, CDiv(Max(t), b)))
                 ELSE IF CmpLt(t, b, IntT, 0)
                 THEN CmpLt(t, b, p, Arith(p, CDiv(Min(t), a)))
                 ELSE FALSE
            ELSE IF CmpLt(t, a, IntT, 0)
            THEN IF CmpGt(t, b, IntT, 0)
                 THEN CmpLt(t, a, p, Arith(p, CDiv(Min(t), b)))
                 ELSE IF CmpLt(t, b, IntT, 0)
                 THEN CmpLt(t, a, p, Arith(p, CDiv(Min(t), b)))
                 ELSE FALSE
            ELSE FALSE
    IN  IF ov
        THEN [ov |-> TRUE, result |-> 0]
        ELSE [ov |-> FALSE, result |-> Conv(t, Arith(p, a * b))]

mul_overflow(t, a, b) ==
    LET p == Promote(t)
        ov ==
            IF CmpGt(t, a, IntT, 0)
            THEN IF CmpGt(t, b, IntT, 0)
                 THEN CmpGt(t, a, p, Arith(p, CDiv(Max(t), b)))
                 ELSE IF CmpLt(t, b, IntT, 0)
                 THEN CmpLt(t, b, p, Arith(p, CDiv(Min(t), a)))
                 ELSE FALSE
            ELSE IF CmpLt(t, a, IntT, 0)
            THEN IF CmpGt(t, b, IntT, 0)
                 THEN CmpLt(t, a, p, Arith(p, CDiv(Min(t), b)))
                 ELSE IF CmpLt(t, b, IntT, 0)
                 THEN CmpLt(t, a, p, Arith(p, CDiv(Max(t), b)))
                 ELSE FALSE
            ELSE FALSE
    IN  IF ov
        THEN [ov |-> TRUE, result |-> 0]
        ELSE [ov |-> FALSE, result |-> Conv(t, Arith(p, a * b))]

\* ------------------------------------------------------------------------
\* Same-type operators: the outcome of each on receiver a and operand b
\* ------------------------------------------------------------------------
op_add(t, a, b) ==
    LET r == add_overflow(t, a, b)
    IN  IF r.ov THEN Throw("OverflowError") ELSE Construct(t, t, r.result)

\* other.value - value for value - other.value
op_sub_reversed(t, a, b) ==
    LET r == sub_overflow(t, b, a)
    IN  IF r.ov THEN Throw("OverflowError") ELSE Construct(t, t, r.result)

op_sub(t, a, b) ==
    LET r == sub_overflow(t, a, b)
    IN  IF r.ov THEN Throw("OverflowError") ELSE Construct(t, t, r.result)

op_mul(t, a, b) ==
    LET r == mul_overflow(t, a, b)
    IN  IF r.ov THEN Throw("OverflowError") ELSE Construct(t, t, r.result)

\* the guard of operator/ and operator/= for signed T
DivOverflows(t, a, b) ==
    t.sgn /\ CmpEq(t, a, t, Min(t)) /\ CmpEq(t, b, IntT, -1)

\* operator/ without the guard for min() / -1
op_div_unguarded(t, a, b) ==
    LET p == Promote(t)
    IN  IF CmpEq(t, b, IntT, 0) THEN Throw("DivisionByZeroError")
        ELSE Construct(t, p, Arith(p, CDiv(a, b)))

op_div(t, a, b) ==
    LET p == Promote(t)
    IN  IF CmpEq(t, b, IntT, 0) THEN Throw("DivisionByZeroError")
        ELSE IF DivOverflows(t, a, b) THEN Throw("OverflowError")
        ELSE Construct(t, p, Arith(p, CDiv(a, b)))

\* operator% throwing the error of operator/
op_mod_diverror(t, a, b) ==
    LET p == Promote(t)
    IN  IF CmpEq(t, b, IntT, 0) THEN Throw("DivisionByZeroError")
        ELSE IF DivOverflows(t, a, b) THEN Construct(t, IntT, 0)
        ELSE Construct(t, p, Arith(p, CRem(a, b)))

op_mod(t, a, b) ==
    LET p == Promote(t)
    IN  IF CmpEq(t, b, IntT, 0) THEN Throw("ModuloByZeroError")
        ELSE IF DivOverflows(t, a, b) THEN Construct(t, IntT, 0)
        ELSE Construct(t, p, Arith(p, CRem(a, b)))

\* unary operator- without the guard for min()
op_neg_unguarded(t, a) == Construct(t, Promote(t), Arith(Promote(t), -a))

\* unary operator-: -value has the promoted type
op_neg(t, a) ==
    LET p == Promote(t)
    IN  IF t.sgn /\ CmpEq(t, a, t, Min(t)) THEN Throw("OverflowError")
        ELSE Construct(t, p, Arith(p, -a))

\* ------------------------------------------------------------------------
\* Bitwise operators
\* ------------------------------------------------------------------------
BitOf(k, x, y) ==
    IF k = "and" THEN (IF x = 1 /\ y = 1 THEN 1 ELSE 0)
    ELSE IF k = "or" THEN (IF x = 1 \/ y = 1 THEN 1 ELSE 0)
    ELSE (IF x # y THEN 1 ELSE 0)

RECURSIVE BitOp(_, _, _, _)
\* x & y, x | y, x ^ y of two n-bit patterns
BitOp(k, x, y, n) ==
    IF n = 0 THEN 0
    ELSE BitOf(k, x % 2, y % 2) + 2 * BitOp(k, x \div 2, y \div 2, n - 1)

\* value & other.value (| and ^): computed on the promoted operands
Bitwise(k, t, a, b) ==
    LET p == Promote(t)
    IN  Conv(p, BitOp(k, a % (2^p.bits), b % (2^p.bits), p.bits))

op_bit(k, t, a, b) == Construct(t, Promote(t), Bitwise(k, t, a, b))

\* operator~: ~value has the promoted type
op_not(t, a) ==
    LET p == Promote(t)
    IN  Construct(t, p, IF p.sgn THEN -1 - a ELSE Max(p) - a)

\* ------------------------------------------------------------------------
\* Shifts
\* ------------------------------------------------------------------------
RECURSIVE ShlFits(_, _, _)
\* a * 2^n is a value of p
ShlFits(p, a, n) ==
    IF n = 0 THEN TRUE
    ELSE InRange(p, 2 * a) /\ ShlFits(p, 2 * a, n - 1)

RECURSIVE ShlWrap(_, _, _)
\* a * 2^n modulo 2^bits, as a value of p
ShlWrap(p, a, n) == IF n = 0 THEN a ELSE ShlWrap(p, Conv(p, 2 * a), n - 1)

\* value << shift in the promoted type p.  A signed shift whose result is
\* not a value of p is undefined before C++20 and modulo 2^bits since: any
\* value of p may come out.
ShlValues(p, a, n, any) ==
    IF ShlFits(p, a, n) THEN {ShlWrap(p, a, n)}
    ELSE IF p.sgn THEN {ShlWrap(p, a, n)} \cup any
    ELSE {ShlWrap(p, a, n)}

\* the bounds check with > for >=
ShiftOutOfBounds_gt(t, shift) == shift < 0 \/ shift > t.bits

ShiftOutOfBounds(t, shift) == shift < 0 \/ shift >= t.bits

\* operator<<: the set of outcomes
op_shl(t, a, shift, any) ==
    LET p == Promote(t)
    IN  IF ShiftOutOfBounds(t, shift) THEN {Throw("OverflowError")}
        ELSE {Construct(t, p, r) : r \in ShlValues(p, a, shift, any)}

\* operator>>: value >> shift is the floor of value / 2^shift
op_shr(t, a, shift) ==
    LET p == Promote(t)
    IN  IF ShiftOutOfBounds(t, shift) THEN Throw("OverflowError")
        ELSE Construct(t, p, a \div (2^shift))

\* ------------------------------------------------------------------------
\* Conversions
\* ------------------------------------------------------------------------
\* explicit operator Target() of a NumericWrapper over t
op_cast(t, a, target) ==
    IF t = target THEN Ok(a)
    ELSE IF CmpGt(t, a, target, Max(target)) \/ CmpLt(t, a, target, Min(target))
    THEN Throw("OverflowError")
    ELSE Ok(Conv(target, a))

\* espresso_integer<T>::as<U>(): the value a of t into u
integer_as(t, a, u) ==
    IF t.sgn /\ ~u.sgn /\ CmpLt(t, a, IntT, 0) THEN Throw("range_error")
    ELSE IF CmpLt(t, a, u, Min(u)) \/ CmpGt(t, a, u, Max(u))
    THEN Throw("overflow_error")
    ELSE Ok(Conv(u, a))

\* NumericWrapper(const NumericWrapper<OtherDerived, OtherT>& other): a
\* wrapper over t from a wrapper over other_t holding a
wrapper_ctor(t, other_t, a) ==
    IF a > Conv(other_t, Max(t)) \/ a < Conv(other_t, Min(t))
    THEN Throw("OverflowError")
    ELSE Ok(Conv(t, a))

\* ------------------------------------------------------------------------
\* Comparisons: k is one of "lt", "gt", "le", "ge", "eq", "ne"
\* ------------------------------------------------------------------------
CmpKinds == {"lt", "gt", "le", "ge", "eq", "ne"}

\* value < other.value and the like, on two values of t
op_cmp(k, t, a, b) ==
    CASE k = "lt" -> CmpLt(t, a, t, b)
      [] k = "gt" -> CmpGt(t, a, t, b)
      [] k = "le" -> ~CmpGt(t, a, t, b)
      [] k = "ge" -> ~CmpLt(t, a, t, b)
      [] k = "eq" -> CmpEq(t, a, t, b)
      [] k = "ne" -> ~CmpEq(t, a, t, b)

\* value < static_cast<T>(other) and the like, for a raw u of type ut
op_cmp_mixed(k, t, a, ut, u) == op_cmp(k, t, a, Conv(t, u))

\* u < x is rhs > lhs, u > x is rhs < lhs, u <= x is rhs >= lhs,
\* u >= x is rhs <= lhs, u == x is rhs == lhs, u != x is rhs != lhs
rev_cmp(k, t, x, ut, u) ==
    CASE k = "lt" -> op_cmp_mixed("gt", t, x, ut, u)
      [] k = "gt" -> op_cmp_mixed("lt", t, x, ut, u)
      [] k = "le" -> op_cmp_mixed("ge", t, x, ut, u)
      [] k = "ge" -> op_cmp_mixed("le", t, x, ut, u)
      [] k = "eq" -> op_cmp_mixed("eq", t, x, ut, u)
      [] k = "ne" -> op_cmp_mixed("ne", t, x, ut, u)

\* ------------------------------------------------------------------------
\* Output: text as a sequence of character codes
\* ------------------------------------------------------------------------
RECURSIVE Digits(_)
\* the base-10 digits of n >= 0, as std::ostream writes an integer
Digits(n) ==
    IF n < 10 THEN <<48 + n>>
    ELSE Digits(n \div 10) \o <<48 + (n % 10)>>

\* os << obj.value: int8_t and uint8_t are character types, which the
\* stream writes as the one character with that code; the other integral
\* types are written in base 10 with a leading '-' when negative
stream_out(t, a) ==
    IF t.bits = ByteBits THEN <<a % 256>>
    ELSE IF a < 0 THEN <<45>> \o Digits(-a)
    ELSE Digits(a)

\* ------------------------------------------------------------------------
\* Compound assignment
\* ------------------------------------------------------------------------
\* value = result placed before the overflow test
Commit_early(r, a) ==
    [res |-> IF r.ov THEN Throw("OverflowError") ELSE Ok(r.result),
     stored |-> r.result]

\* if (overflow) throw; value = result: the outcome and the value stored
Commit(r, a) ==
    IF r.ov THEN [res |-> Throw("OverflowError"), stored |-> a]
    ELSE [res |-> Ok(r.result), stored |-> r.result]

Stores(v) == [res |-> Ok(v), stored |-> v]
Keeps(e, a) == [res |-> Throw(e), stored |-> a]

\* value += other.value with no overflow test
op_add_assign_wrapping(t, a, b) == Stores(Conv(t, Arith(Promote(t), a + b)))

op_add_assign(t, a, b) == Commit(add_overflow(t, a, b), a)
op_sub_assign(t, a, b) == Commit(sub_overflow(t, a, b), a)
op_mul_assign(t, a, b) == Commit(mul_overflow(t, a, b), a)

op_div_assign(t, a, b) ==
    LET p == Promote(t)
    IN  IF CmpEq(t, b, IntT, 0) THEN Keeps("DivisionByZeroError", a)
        ELSE IF DivOverflows(t, a, b) THEN Keeps("OverflowError", a)
        ELSE Stores(Conv(t, Arith(p, CDiv(a, b))))

op_mod_assign(t, a, b) ==
    LET p == Promote(t)
    IN  IF CmpEq(t, b, IntT, 0) THEN Keeps("ModuloByZeroError", a)
        ELSE IF DivOverflows(t, a, b) THEN Stores(0)
        ELSE Stores(Conv(t, Arith(p, CRem(a, b))))

\* ------------------------------------------------------------------------
\* Mixed-type operators: receiver a of type t, operand u of type ut
\* ------------------------------------------------------------------------
\* the process stopped by the hardware fault of an integer division
Trap == [err |-> "Trap", val |-> 0]

\* value / d and value % d are undefined in the promoted type p: d is zero,
\* or the quotient min() / -1 is not a value of p
DivUndefined(p, a, d) == d = 0 \/ (p.sgn /\ a = Min(p) /\ d = -1)

\* what an undefined division may do: stop the process, or yield any value
Undefined(t, p, any) == {Trap} \cup {Construct(t, p, r) : r \in any}
UndefinedStore(t, a, any) ==
    {[res |-> Trap, stored |-> a]} \cup {Stores(Conv(t, r)) : r \in any}

\* the guard of the mixed operator/ and operator%: other == -1 is compared
\* in the common type of U and int
DivOverflowsMixed(t, a, ut, u) ==
    t.sgn /\ CmpEq(t, a, t, Min(t)) /\ CmpEq(ut, u, IntT, -1)

op_add_mixed(t, a, ut, u) ==
    LET r == add_overflow(t, a, Conv(t, u))
    IN  IF r.ov THEN Throw("OverflowError") ELSE Construct(t, t, r.result)

op_sub_mixed(t, a, ut, u) ==
    LET r == sub_overflow(t, a, Conv(t, u))
    IN  IF r.ov THEN Throw("OverflowError") ELSE Construct(t, t, r.result)

op_mul_mixed(t, a, ut, u) ==
    LET r == mul_overflow(t, a, Conv(t, u))
    IN  IF r.ov THEN Throw("OverflowError") ELSE Construct(t, t, r.result)

\* the mixed operator/: the set of outcomes
op_div_mixed(t, a, ut, u, any) ==
    LET p == Promote(t)
        d == Conv(t, u)
    IN  IF CmpEq(ut, u, IntT, 0) THEN {Throw("DivisionByZeroError")}
        ELSE IF DivOverflowsMixed(t, a, ut, u) THEN {Throw("OverflowError")}
        ELSE IF DivUndefined(p, a, d) THEN Undefined(t, p, any)
        ELSE {Construct(t, p, Arith(p, CDiv(a, d)))}

\* the mixed operator%: the set of outcomes
op_mod_mixed(t, a, ut, u, any) ==
    LET p == Promote(t)
        d == Conv(t, u)
    IN  IF CmpEq(ut, u, IntT, 0) THEN {Throw("ModuloByZeroError")}
        ELSE IF DivOverflowsMixed(t, a, ut, u) THEN {Construct(t, IntT, 0)}
        ELSE IF DivUndefined(p, a, d) THEN Undefined(t, p, any)
        ELSE {Construct(t, p, Arith(p, CRem(a, d)))}

op_add_assign_mixed(t, a, ut, u) == Commit(add_overflow(t, a, Conv(t, u)), a)
op_sub_assign_mixed(t, a, ut, u) == Commit(sub_overflow(t, a, Conv(t, u)), a)
op_mul_assign_mixed(t, a, ut, u) == Commit(mul_overflow(t, a, Conv(t, u)), a)

op_div_assign_mixed(t, a, ut, u, any) ==
    LET p == Promote(t)
        d == Conv(t, u)
    IN  IF CmpEq(ut, u, IntT, 0) THEN {Keeps("DivisionByZeroError", a)}
        ELSE IF DivOverflowsMixed(t, a, ut, u) THEN {Keeps("OverflowError", a)}
        ELSE IF DivUndefined(p, a, d) THEN UndefinedStore(t, a, any)
        ELSE {Stores(Conv(t, Arith(p, CDiv(a, d))))}

op_mod_assign_mixed(t, a, ut, u, any) ==
    LET p == Promote(t)
        d == Conv(t, u)
    IN  IF CmpEq(ut, u, IntT, 0) THEN {Keeps("ModuloByZeroError", a)}
        ELSE IF DivOverflowsMixed(t, a, ut, u) THEN {Stores(0)}
        ELSE IF DivUndefined(p, a, d) THEN UndefinedStore(t, a, any)
        ELSE {Stores(Conv(t, Arith(p, CRem(a, d))))}

\* ------------------------------------------------------------------------
\* Global reverse operators: lhs u of type ut, rhs a wrapper over t holding x
\* ------------------------------------------------------------------------
\* rhs + lhs and rhs * lhs: the mixed member operators
rev_add(t, x, ut, u) == op_add_mixed(t, x, ut, u)
rev_mul(t, x, ut, u) == op_mul_mixed(t, x, ut, u)

\* Derived(static_cast<T>(lhs)) - rhs, / rhs, % rhs: the explicit
\* NumericWrapper(T) of the cast value, then the operator on rhs's value
rev_sub(t, x, ut, u) == op_sub(t, Conv(t, u), x)
rev_div(t, x, ut, u) == op_div(t, Conv(t, u), x)
rev_mod(t, x, ut, u) == op_mod(t, Conv(t, u), x)

\* ------------------------------------------------------------------------
\* The inputs
\* ------------------------------------------------------------------------
SmallValues == {-43, -42, -3, -2, -1, 0, 1, 2, 3, 5, 7, 42, 43, 65, 100}

\* the values of t the operations are run on: the bounds of t, their
\* neighbours, the middle of the range and the small values
Samples(t) ==
    {x \in SmallValues
        \cup {Min(t), Min(t) + 1, Max(t) - 1, Max(t)}
        \cup {Max(t) \div 2, (Max(t) \div 2) + 1, Min(t) \div 2, (Min(t) \div 2) - 1}
     : InRange(t, x)}

\* the foreign operands of type ut: its bounds, values around 0 and one
\* value no 8-bit type holds
ForeignSamples(ut) == {x \in {Min(ut), -1, 0, 1, 3, 300, Max(ut)} : InRange(ut, x)}

\* the shift counts: around 0 and around the width of t
ShiftCounts(t) == {-2, -1, 0, 1, 2, 7, t.bits - 2, t.bits - 1, t.bits, t.bits + 1}

\* ------------------------------------------------------------------------
\* The state machine: an object is constructed, one operation is applied
\* ------------------------------------------------------------------------
\* the number of compound assignments applied to one receiver in a row
MaxSteps == 2

\* no scan is running
NoScan == [fn |-> "none", i |-> 0, acc |-> 0, hi |-> -1]

Init ==
    /\ T \in Types
    /\ value \in Samples(T)
    /\ before = value
    /\ op = "construct"
    /\ argT = T
    /\ arg = 0
    /\ res = Ok(value)
    /\ data = <<>>
    /\ steps = 0
    /\ scan = NoScan
    /\ pc = "constructed"

\* the operation `name` on operand b of type bt returns or throws r and
\* leaves the receiver alone
Returns(name, bt, b, r) ==
    /\ op' = name
    /\ argT' = bt
    /\ arg' = b
    /\ res' = r
    /\ pc' = "done"
    /\ UNCHANGED <<T, value, before, data, steps, scan>>

\* the compound assignment `name`: r is the outcome, v the value stored
Assigns(name, bt, b, r, v) ==
    /\ op' = name
    /\ argT' = bt
    /\ arg' = b
    /\ res' = r
    /\ value' = v
    /\ pc' = "done"
    /\ UNCHANGED <<T, before, data, steps, scan>>

Add == pc = "constructed" /\ \E b \in Samples(T) :
    Returns("add", T, b, op_add(T, value, b))

\* (x + b) - b: operator- applied to the wrapper operator+ returned
AddSub == pc = "constructed" /\ \E b \in Samples(T) :
    LET s == op_add(T, value, b)
    IN  Returns("add_sub", T, b,
                IF s.err # "none" THEN s ELSE op_sub(T, s.val, b))

\* os << x
Render == pc = "constructed" /\
    Returns("render", T, 0, Ok(stream_out(T, value)))

Sub == pc = "constructed" /\ \E b \in Samples(T) :
    Returns("sub", T, b, op_sub(T, value, b))

Mul == pc = "constructed" /\ \E b \in Samples(T) :
    Returns("mul", T, b, op_mul(T, value, b))

Div == pc = "constructed" /\ \E b \in Samples(T) :
    Returns("div", T, b, op_div(T, value, b))

Mod == pc = "constructed" /\ \E b \in Samples(T) :
    Returns("mod", T, b, op_mod(T, value, b))

Neg == pc = "constructed" /\ Returns("neg", T, 0, op_neg(T, value))

\* operator+=: value = result only when add_overflow returned false
AddAssign == pc = "constructed" /\ \E b \in Samples(T) :
    LET r == op_add_assign(T, value, b)
    IN  Assigns("add_assign", T, b, r.res, r.stored)

\* operator-=
SubAssign == pc = "constructed" /\ \E b \in Samples(T) :
    LET r == op_sub_assign(T, value, b)
    IN  Assigns("sub_assign", T, b, r.res, r.stored)

\* operator*=
MulAssign == pc = "constructed" /\ \E b \in Samples(T) :
    LET r == op_mul_assign(T, value, b)
    IN  Assigns("mul_assign", T, b, r.res, r.stored)

\* operator/=
DivAssign == pc = "constructed" /\ \E b \in Samples(T) :
    LET r == op_div_assign(T, value, b)
    IN  Assigns("div_assign", T, b, r.res, r.stored)

\* operator%=
ModAssign == pc = "constructed" /\ \E b \in Samples(T) :
    LET r == op_mod_assign(T, value, b)
    IN  Assigns("mod_assign", T, b, r.res, r.stored)

BitAnd == pc = "constructed" /\ \E b \in Samples(T) :
    Returns("and", T, b, op_bit("and", T, value, b))

BitOr == pc = "constructed" /\ \E b \in Samples(T) :
    Returns("or", T, b, op_bit("or", T, value, b))

BitXor == pc = "constructed" /\ \E b \in Samples(T) :
    Returns("xor", T, b, op_bit("xor", T, value, b))

BitNot == pc = "constructed" /\ Returns("not", T, 0, op_not(T, value))

ShiftLeft == pc = "constructed" /\ \E n \in ShiftCounts(T) :
    \E r \in op_shl(T, value, n, Samples(Promote(T))) :
        Returns("shl", IntT, n, r)

ShiftRight == pc = "constructed" /\ \E n \in ShiftCounts(T) :
    Returns("shr", IntT, n, op_shr(T, value, n))

\* static_cast<Target>(x) of a wrapper x over T
Cast == pc = "constructed" /\ \E target \in Types :
    Returns("cast", target, 0, op_cast(T, value, target))

\* espresso_integer<T>::as<Target>()
As == pc = "constructed" /\ \E target \in Types :
    Returns("as", target, 0, integer_as(T, value, target))

\* Derived(v) of a wrapper type over `target`, from a raw v of type T
ConvertCtor == pc = "constructed" /\ \E target \in Types :
    Returns("convert_ctor", target, 0, Construct(target, T, value))

\* Derived(x) of a wrapper type over `target`, from a wrapper x over T
WrapperCtor == pc = "constructed" /\ \E target \in Types :
    Returns("wrapper_ctor", target, 0, wrapper_ctor(target, T, value))

Next ==
    \/ Add
    \/ AddSub
    \/ Render
    \/ Sub
    \/ Mul
    \/ Div
    \/ Mod
    \/ Neg
    \/ AddAssign
    \/ SubAssign
    \/ MulAssign
    \/ DivAssign
    \/ ModAssign
    \/ BitAnd
    \/ BitOr
    \/ BitXor
    \/ BitNot
    \/ ShiftLeft
    \/ ShiftRight
    \/ Cast
    \/ As
    \/ ConvertCtor
    \/ WrapperCtor

Spec == Init /\ [][Next]_vars

\* ------------------------------------------------------------------------
\* Mixed-type and reverse operators, with the compound assignments
\* ------------------------------------------------------------------------
AddMixed == pc = "constructed" /\ \E ut \in Types : \E u \in ForeignSamples(ut) :
    Returns("add_mixed", ut, u, op_add_mixed(T, value, ut, u))

SubMixed == pc = "constructed" /\ \E ut \in Types : \E u \in ForeignSamples(ut) :
    Returns("sub_mixed", ut, u, op_sub_mixed(T, value, ut, u))

MulMixed == pc = "constructed" /\ \E ut \in Types : \E u \in ForeignSamples(ut) :
    Returns("mul_mixed", ut, u, op_mul_mixed(T, value, ut, u))

DivMixed == pc = "constructed" /\ \E ut \in Types : \E u \in ForeignSamples(ut) :
    \E r \in op_div_mixed(T, value, ut, u, Samples(Promote(T))) :
        Returns("div_mixed", ut, u, r)

ModMixed == pc = "constructed" /\ \E ut \in Types : \E u \in ForeignSamples(ut) :
    \E r \in op_mod_mixed(T, value, ut, u, Samples(Promote(T))) :
        Returns("mod_mixed", ut, u, r)

AddAssignMixed == pc = "constructed" /\ \E ut \in Types : \E u \in ForeignSamples(ut) :
    LET r == op_add_assign_mixed(T, value, ut, u)
    IN  Assigns("add_assign_mixed", ut, u, r.res, r.stored)

SubAssignMixed == pc = "constructed" /\ \E ut \in Types : \E u \in ForeignSamples(ut) :
    LET r == op_sub_assign_mixed(T, value, ut, u)
    IN  Assigns("sub_assign_mixed", ut, u, r.res, r.stored)

MulAssignMixed == pc = "constructed" /\ \E ut \in Types : \E u \in ForeignSamples(ut) :
    LET r == op_mul_assign_mixed(T, value, ut, u)
    IN  Assigns("mul_assign_mixed", ut, u, r.res, r.stored)

DivAssignMixed == pc = "constructed" /\ \E ut \in Types : \E u \in ForeignSamples(ut) :
    \E r \in op_div_assign_mixed(T, value, ut, u, Samples(Promote(T))) :
        Assigns("div_assign_mixed", ut, u, r.res, r.stored)

ModAssignMixed == pc = "constructed" /\ \E ut \in Types : \E u \in ForeignSamples(ut) :
    \E r \in op_mod_assign_mixed(T, value, ut, u, Samples(Promote(T))) :
        Assigns("mod_assign_mixed", ut, u, r.res, r.stored)

\* u + x, u - x, u * x, u / x, u % x for a raw u and a wrapper x over T
RevAdd == pc = "constructed" /\ \E ut \in Types : \E u \in ForeignSamples(ut) :
    Returns("rev_add", ut, u, rev_add(T, value, ut, u))

RevSub == pc = "constructed" /\ \E ut \in Types : \E u \in ForeignSamples(ut) :
    Returns("rev_sub", ut, u, rev_sub(T, value, ut, u))

RevMul == pc = "constructed" /\ \E ut \in Types : \E u \in ForeignSamples(ut) :
    Returns("rev_mul", ut, u, rev_mul(T, value, ut, u))

RevDiv == pc = "constructed" /\ \E ut \in Types : \E u \in ForeignSamples(ut) :
    Returns("rev_div", ut, u, rev_div(T, value, ut, u))

RevMod == pc = "constructed" /\ \E ut \in Types : \E u \in ForeignSamples(ut) :
    Returns("rev_mod", ut, u, rev_mod(T, value, ut, u))

\* x < y, x > y, x <= y, x >= y, x == y, x != y on two wrappers over T
Compare == pc = "constructed" /\ \E k \in CmpKinds : \E b \in Samples(T) :
    Returns(k, T, b, Ok(op_cmp(k, T, value, b)))

\* u < x, u > x, u <= x, u >= x, u == x, u != x for a raw u
RevCompare == pc = "constructed" /\ \E k \in CmpKinds :
    \E ut \in Types : \E u \in ForeignSamples(ut) :
        Returns("rev_" \o k, ut, u, Ok(rev_cmp(k, T, value, ut, u)))

NextMixed ==
    \/ AddMixed
    \/ SubMixed
    \/ MulMixed
    \/ DivMixed
    \/ ModMixed
    \/ AddAssignMixed
    \/ SubAssignMixed
    \/ MulAssignMixed
    \/ DivAssignMixed
    \/ ModAssignMixed
    \/ RevAdd
    \/ RevSub
    \/ RevMul
    \/ RevDiv
    \/ RevMod
    \/ Compare
    \/ RevCompare
    \/ AddAssign
    \/ SubAssign
    \/ MulAssign
    \/ DivAssign
    \/ ModAssign

SpecMixed == Init /\ [][NextMixed]_vars

\* ------------------------------------------------------------------------
\* Sequences of compound assignments on one receiver
\* ------------------------------------------------------------------------
\* the statement after a compound assignment that returned, or whose
\* exception was caught: the receiver holds what the assignment left
NextStatement ==
    /\ pc = "done"
    /\ steps + 1 < MaxSteps
    /\ steps' = steps + 1
    /\ before' = value
    /\ op' = "construct"
    /\ argT' = T
    /\ arg' = 0
    /\ res' = Ok(value)
    /\ pc' = "constructed"
    /\ UNCHANGED <<T, value, data, scan>>

NextSeq ==
    \/ AddAssign
    \/ SubAssign
    \/ MulAssign
    \/ DivAssign
    \/ ModAssign
    \/ NextStatement

SpecSeq == Init /\ [][NextSeq]_vars

\* ------------------------------------------------------------------------
\* StringWrapper: UTF-8 text over a byte string (byte s[i] of the code is
\* s[i + 1] here)
\* ------------------------------------------------------------------------
Bytes == 0..255

\* 0xF8..0xFF taken for the lead byte of a four-byte sequence
LeadWidth_f8(c) ==
    IF c < 128 THEN 1
    ELSE IF c \div 32 = 6 THEN 2
    ELSE IF c \div 16 = 14 THEN 3
    ELSE IF c \div 16 = 15 THEN 4
    ELSE 0

\* the width a lead byte announces: c < 0x80, (c & 0xE0) == 0xC0,
\* (c & 0xF0) == 0xE0, (c & 0xF8) == 0xF0; 0 where the code rejects the byte
LeadWidth(c) ==
    IF c < 128 THEN 1
    ELSE IF c \div 32 = 6 THEN 2
    ELSE IF c \div 16 = 14 THEN 3
    ELSE IF c \div 8 = 30 THEN 4
    ELSE 0

\* (cc & 0xC0) == 0x80
IsContinuation(cc) == cc \div 64 = 2

\* the loop over k = 1 .. width - 1 finds only continuation bytes
ContinuationsOk(s, i, width) ==
    \A k \in 1..(width - 1) : IsContinuation(s[i + k + 1])

\* count advanced by the width of the sequence
count_step_bytes(s, i, count) ==
    LET width == LeadWidth(s[i + 1])
    IN  IF width = 0 \/ i + width > Len(s) \/ ~ContinuationsOk(s, i, width)
        THEN [err |-> "EncodingError", i |-> i, count |-> count]
        ELSE [err |-> "none", i |-> i + width, count |-> count + width]

\* i left in place after a well-formed sequence
count_step_stalled(s, i, count) ==
    LET width == LeadWidth(s[i + 1])
    IN  IF width = 0 \/ i + width > Len(s) \/ ~ContinuationsOk(s, i, width)
        THEN [err |-> "EncodingError", i |-> i, count |-> count]
        ELSE [err |-> "none", i |-> i, count |-> count + 1]

\* one iteration of the loop of utf8_codepoint_count
count_step(s, i, count) ==
    LET width == LeadWidth(s[i + 1])
    IN  IF width = 0 THEN [err |-> "EncodingError", i |-> i, count |-> count]
        ELSE IF i + width > Len(s)
        THEN [err |-> "EncodingError", i |-> i, count |-> count]
        ELSE IF ~ContinuationsOk(s, i, width)
        THEN [err |-> "EncodingError", i |-> i, count |-> count]
        ELSE [err |-> "none", i |-> i + width, count |-> count + 1]

RECURSIVE count_loop(_, _, _)
count_loop(s, i, count) ==
    IF i < Len(s)
    THEN LET st == count_step(s, i, count)
         IN  IF st.err # "none" THEN Throw(st.err)
             ELSE count_loop(s, st.i, st.count)
    ELSE Ok(count)

utf8_codepoint_count(s) == count_loop(s, 0, 0)

length(s) == utf8_codepoint_count(s)

length_bytes(s) == Ok(Len(s))

\* the lead byte taken whole as the start of the codepoint
Payload_unmasked(c, width) == c

\* codepoint = c, c & 0x1F, c & 0x0F, c & 0x07
Payload(c, width) ==
    CASE width = 1 -> c
      [] width = 2 -> c % 32
      [] width = 3 -> c % 16
      [] width = 4 -> c % 8

\* the loop over the continuation bytes in at: k the next one to read
RECURSIVE Accumulate(_, _, _, _, _)
Accumulate(s, i, k, width, codepoint) ==
    IF k < width
    THEN LET cc == s[i + k + 1]
         IN  IF ~IsContinuation(cc) THEN Throw("EncodingError")
             ELSE Accumulate(s, i, k + 1, width, codepoint * 64 + (cc % 64))
    ELSE Ok(codepoint)

\* one iteration of the loop of at: the codepoint decoded at byte i
at_step(s, i) ==
    LET c == s[i + 1]
        width == LeadWidth(c)
    IN  IF width = 0 THEN [err |-> "EncodingError", val |-> 0, i |-> i]
        ELSE IF i + width > Len(s)
        THEN [err |-> "EncodingError", val |-> 0, i |-> i]
        ELSE LET r == Accumulate(s, i, 1, width, Payload(c, width))
             IN  [err |-> r.err, val |-> r.val, i |-> i + width]

RECURSIVE at_loop(_, _, _, _)
at_loop(s, index, i, cp_index) ==
    IF i < Len(s)
    THEN LET st == at_step(s, i)
         IN  IF st.err # "none" THEN Throw(st.err)
             ELSE IF cp_index = index THEN Ok(st.val)
             ELSE at_loop(s, index, st.i, cp_index + 1)
    ELSE Throw("StringIndexError")

\* the codepoint after the requested one
at_next(s, index) == at_loop(s, index + 1, 0, 0)

at(s, index) == at_loop(s, index, 0, 0)

\* the continuation bytes left unread
valid_step_unread(s, i) ==
    LET c == s[i + 1]
        width == LeadWidth(c)
    IN  IF c < 128 THEN [ok |-> TRUE, i |-> i + 1]
        ELSE IF width = 0 \/ i + width > Len(s) THEN [ok |-> FALSE, i |-> i]
        ELSE [ok |-> TRUE, i |-> i + width]

\* one iteration of the loop of is_valid_utf8
valid_step(s, i) ==
    LET c == s[i + 1]
        width == LeadWidth(c)
    IN  IF c < 128 THEN [ok |-> TRUE, i |-> i + 1]
        ELSE IF width = 0 THEN [ok |-> FALSE, i |-> i]
        ELSE IF i + width > Len(s) THEN [ok |-> FALSE, i |-> i]
        ELSE IF ~ContinuationsOk(s, i, width) THEN [ok |-> FALSE, i |-> i]
        ELSE [ok |-> TRUE, i |-> i + width]

RECURSIVE valid_loop(_, _)
valid_loop(s, i) ==
    IF i < Len(s)
    THEN LET st == valid_step(s, i)
         IN  IF ~st.ok THEN FALSE ELSE valid_loop(s, st.i)
    ELSE TRUE

is_valid_utf8(s) == valid_loop(s, 0)

\* the first element of other left out
concat_overlap(a, b) == IF b = <<>> THEN a ELSE a \o Tail(b)

\* result = *this; result.data.insert(end, other.begin, other.end)
concat(a, b) == a \o b

\* the standard shortest-form UTF-8 encoding of one scalar value
EncodeOne(cp) ==
    IF cp < 128 THEN <<cp>>
    ELSE IF cp < 2048 THEN <<192 + (cp \div 64), 128 + (cp % 64)>>
    ELSE IF cp < 65536
    THEN <<224 + (cp \div 4096), 128 + ((cp \div 64) % 64), 128 + (cp % 64)>>
    ELSE <<240 + (cp \div 262144), 128 + ((cp \div 4096) % 64),
           128 + ((cp \div 64) % 64), 128 + (cp % 64)>>

RECURSIVE Encode(_)
Encode(values) ==
    IF values = <<>> THEN <<>>
    ELSE EncodeOne(Head(values)) \o Encode(Tail(values))

\* ------------------------------------------------------------------------
\* The text inputs
\* ------------------------------------------------------------------------
MaxLen == 4
MaxValues == 2

\* one byte of each class: ASCII, continuation, the lead bytes of two-,
\* three- and four-byte sequences, and a byte of no class
Alphabet == {65, 128, 195, 224, 240, 255}

SeqsUpTo(S, n) == UNION {[1..k -> S] : k \in 0..n}

\* scalar values at the ends of each encoded width
Scalars == {65, 127, 128, 233, 2047, 2048, 65535, 65536, 1114111}

ValueSeqs == SeqsUpTo(Scalars, MaxValues)

Encodings == {[values |-> v, bytes |-> Encode(v)] : v \in ValueSeqs}

Cafe == <<99, 97, 102, 195, 169>>

NamedStrings == {Cafe, <<255>>, <<192>>, <<224, 128, 65>>}

\* every byte alone, and every byte after the lead byte of a two-byte sequence
Sweep == {<<b>> : b \in Bytes} \cup {<<195, b>> : b \in Bytes}

Strings ==
    SeqsUpTo(Alphabet, MaxLen) \cup NamedStrings \cup Sweep
        \cup {e.bytes : e \in Encodings}

Indexes == 0..(MaxLen + 1) \cup {10}

Operands == {<<>>, <<65>>, Cafe, <<195, 169>>, <<240, 159, 140, 159>>,
             <<128>>, <<195>>, <<255>>}

\* ------------------------------------------------------------------------
\* The text state machine: a StringWrapper is constructed over a byte
\* string, then one operation is applied to it
\* ------------------------------------------------------------------------
\* StringWrapper(const std::string& s) : data(s)
InitText ==
    /\ data \in Strings
    /\ T = UByteT
    /\ value = 0
    /\ before = 0
    /\ op = "construct"
    /\ argT = UByteT
    /\ arg = 0
    /\ res = Ok(0)
    /\ steps = 0
    /\ scan = NoScan
    /\ pc = "constructed"

TextReturns(name, b, r) ==
    /\ op' = name
    /\ arg' = b
    /\ res' = r
    /\ pc' = "done"
    /\ UNCHANGED <<T, value, before, argT, data, steps, scan>>

Length == pc = "constructed" /\ TextReturns("length", 0, length(data))

LengthBytes == pc = "constructed" /\ TextReturns("length_bytes", 0, length_bytes(data))

At == pc = "constructed" /\ \E index \in Indexes :
    TextReturns("at", index, at(data, index))

IsValidUtf8 == pc = "constructed" /\ TextReturns("is_valid_utf8", 0, Ok(is_valid_utf8(data)))

Concat == pc = "constructed" /\ \E other \in Operands :
    TextReturns("concat", other, Ok(concat(data, other)))

NextText ==
    \/ Length
    \/ LengthBytes
    \/ At
    \/ IsValidUtf8
    \/ Concat

SpecText == InitText /\ [][NextText]_vars

\* ------------------------------------------------------------------------
\* The scans, one loop iteration at a time
\* ------------------------------------------------------------------------
\* how many continuation bytes the loop over k = 1 .. width - 1 reads: it
\* stops at the first byte that is not one (or lies beyond the string)
ContReads(s, i, width) ==
    LET stop == {k \in 1..(width - 1) :
                    i + k >= Len(s) \/ ~IsContinuation(s[i + k + 1])}
    IN  IF stop = {} THEN width - 1
        ELSE CHOOSE k \in stop : \A j \in stop : k <= j

\* the continuation bytes read before i + width > n is tested
LastRead_late(s, i) ==
    LET width == LeadWidth(s[i + 1])
    IN  IF width = 0 THEN i ELSE i + ContReads(s, i, width)

\* the highest position one iteration at position i reads: s[i], and
\* s[i + k] only after the test i + width > n has passed
LastRead(s, i) ==
    LET width == LeadWidth(s[i + 1])
    IN  IF width = 0 \/ i + width > Len(s) THEN i
        ELSE i + ContReads(s, i, width)

\* no outcome yet: the scan is in its loop
Pending == [err |-> "pending", val |-> 0]

\* size_t i = 0, count = 0 (cp_index = 0), n = s.size()
Call == pc = "constructed" /\
    \E fn \in {"length", "at", "is_valid_utf8"} :
    \E index \in (IF fn = "at" THEN Indexes ELSE {0}) :
        /\ op' = fn
        /\ arg' = index
        /\ scan' = [fn |-> fn, i |-> 0, acc |-> 0, hi |-> -1]
        /\ res' = Pending
        /\ pc' = "scanning"
        /\ UNCHANGED <<T, value, before, argT, data, steps>>

\* the scan goes on to its next loop head
Continues(i, acc) ==
    /\ scan' = [scan EXCEPT !.i = i, !.acc = acc,
                            !.hi = LastRead(data, scan.i)]
    /\ steps' = steps + 1
    /\ UNCHANGED <<T, value, before, op, argT, arg, res, data, pc>>

\* the scan returns or throws r, inside the loop body or at the loop head
Finishes(r, inBody) ==
    /\ pc' = "done"
    /\ res' = r
    /\ scan' = IF inBody THEN [scan EXCEPT !.hi = LastRead(data, scan.i)]
               ELSE scan
    /\ steps' = IF inBody THEN steps + 1 ELSE steps
    /\ UNCHANGED <<T, value, before, op, argT, arg, data>>

\* utf8_codepoint_count: while (i < n) { ... } return count
LengthIter == pc = "scanning" /\ scan.fn = "length" /\ steps <= Len(data) /\
    IF scan.i < Len(data)
    THEN LET st == count_step(data, scan.i, scan.acc)
         IN  IF st.err # "none" THEN Finishes(Throw(st.err), TRUE)
             ELSE Continues(st.i, st.count)
    ELSE Finishes(Ok(scan.acc), FALSE)

\* at: while (i < n) { ... } throw StringIndexError
AtIter == pc = "scanning" /\ scan.fn = "at" /\ steps <= Len(data) /\
    IF scan.i < Len(data)
    THEN LET st == at_step(data, scan.i)
         IN  IF st.err # "none" THEN Finishes(Throw(st.err), TRUE)
             ELSE IF scan.acc = arg THEN Finishes(Ok(st.val), TRUE)
             ELSE Continues(st.i, scan.acc + 1)
    ELSE Finishes(Throw("StringIndexError"), FALSE)

\* is_valid_utf8: while (i < n) { ... } return true
ValidIter == pc = "scanning" /\ scan.fn = "is_valid_utf8" /\ steps <= Len(data) /\
    IF scan.i < Len(data)
    THEN LET st == valid_step(data, scan.i)
         IN  IF ~st.ok THEN Finishes(Ok(FALSE), TRUE)
             ELSE Continues(st.i, 0)
    ELSE Finishes(Ok(TRUE), FALSE)

NextScan ==
    \/ Call
    \/ LengthIter
    \/ AtIter
    \/ ValidIter

\* the position of a scan: every step of NextScan changes it
scanvars == <<pc, scan, steps>>

\* a running scan is not suspended for ever
SpecScan == InitText /\ [][NextScan]_vars /\ WF_scanvars(NextScan)

Errors == {"none", "OverflowError", "DivisionByZeroError", "ModuloByZeroError",
           "EncodingError", "StringIndexError"}

TypeOK ==
    /\ T \in Types
    /\ argT \in Types
    /\ InRange(T, before)
    /\ InRange(T, value)
    /\ pc \in {"constructed", "scanning", "done"}
    /\ res.err \in Errors \cup {"Trap", "range_error", "overflow_error"}
    /\ data \in Seq(Bytes)
    /\ steps \in Nat

\* ------------------------------------------------------------------------
\* Properties
\* ------------------------------------------------------------------------
\* |a| * |b| <= lim, for lim >= 0, decided without forming a product that
\* exceeds 32 bits: directly for small factors, else by x * y <= lim <=>
\* x <= floor(lim / y)
MagnitudeWithin(a, b, lim) ==
    LET x == Abs(a)
        y == Abs(b)
    IN  IF x = 0 \/ y = 0 THEN TRUE
        ELSE IF x < 2^15 /\ y < 2^15 THEN x * y <= lim
        ELSE x <= lim \div y

\* the mathematical product a * b is a value of t
ProductInRange(t, a, b) ==
    IF (a < 0) # (b < 0)
    THEN MagnitudeWithin(a, b, -Min(t))
    ELSE MagnitudeWithin(a, b, Max(t))

\* C1: operator+ and operator+= fail with OverflowError exactly when
\* (b > 0 and a > max - b) or (b < 0 and a < min - b), which is exactly when
\* the mathematical sum a + b is outside [min(T), max(T)]; otherwise they
\* return (and += stores) exactly a + b.
C1_AddExact ==
    op \in {"add", "add_assign"} =>
        LET cond == \/ arg > 0 /\ before > Max(T) - arg
                    \/ arg < 0 /\ before < Min(T) - arg
        IN  /\ res.err \in {"none", "OverflowError"}
            /\ (res.err = "OverflowError") <=> cond
            /\ cond <=> ~InRange(T, before + arg)
            /\ res.err = "none" => res.val = before + arg
            /\ (op = "add_assign" /\ res.err = "none") => value = before + arg

C1_Witness ==
    /\ op = "add_assign"
    /\ T = ByteT
    /\ before = -43
    /\ arg = -128
    /\ res.err = "OverflowError"

\* C2: binary operator- and operator-= fail with OverflowError exactly when
\* the mathematical difference a - b is outside [min(T), max(T)], and
\* otherwise return (and -= stores) exactly a - b.
C2_SubExact ==
    op \in {"sub", "sub_assign"} =>
        /\ res.err \in {"none", "OverflowError"}
        /\ (res.err = "OverflowError") <=> ~InRange(T, before - arg)
        /\ res.err = "none" => res.val = before - arg
        /\ (op = "sub_assign" /\ res.err = "none") => value = before - arg

C2_Witness ==
    /\ op = "sub"
    /\ T = UIntT
    /\ before = 2
    /\ arg = 3
    /\ res.err = "OverflowError"

C4_DivOutcome ==
    op = "div" =>
        IF arg = 0 THEN res.err = "DivisionByZeroError"
        ELSE IF T.sgn /\ before = Min(T) /\ arg = -1 THEN res.err = "OverflowError"
        ELSE LET r == before - res.val * arg
             IN  /\ res.err = "none"
                 /\ Abs(r) < Abs(arg)
                 /\ r = 0 \/ ((r > 0) = (before > 0))

C4_Witness ==
    /\ op = "div"
    /\ T = IntT
    /\ before = Min(IntT)
    /\ arg = -1
    /\ res.err = "OverflowError"

\* C5: operator% fails with ModuloByZeroError, never DivisionByZeroError,
\* for every a when b = 0; for signed T the pair (min(T), -1) returns 0,
\* the pair on which operator/ fails with OverflowError.
C5_ModOutcome ==
    op = "mod" =>
        /\ arg = 0 => res.err = "ModuloByZeroError"
        /\ res.err # "DivisionByZeroError"
        /\ (T.sgn /\ before = Min(T) /\ arg = -1) =>
                /\ res = Ok(0)
                /\ op_div(T, before, arg).err = "OverflowError"

C5_Witness ==
    /\ op = "mod"
    /\ T = LongT
    /\ before = Min(LongT)
    /\ arg = -1
    /\ res = Ok(0)

C7_ShiftBounds ==
    (op \in {"shl", "shr"} /\ (arg < 0 \/ arg >= T.bits)) =>
        res.err = "OverflowError"

C7_Witness ==
    /\ op = "shl"
    /\ arg = T.bits
    /\ before = 1
    /\ res.err = "OverflowError"

\* C8: operator&, operator|, operator^ and operator~ never fail, for every
\* integral representation and every operand value.
C8_BitwiseNeverFails ==
    op \in {"and", "or", "xor", "not"} => res.err = "none"

\* C9: the converting constructor and explicit operator Target fail with
\* OverflowError whenever the source value is not a value of the target
\* representation (in particular a negative value into an unsigned target).
C9_ConversionChecked ==
    (op \in {"cast", "convert_ctor"} /\ ~InRange(argT, before)) =>
        res.err = "OverflowError"

\* C10: constructing a wider wrapper from a narrower one of the same
\* signedness never throws and preserves the value.
C10_WideningSucceeds ==
    (op = "wrapper_ctor" /\ argT.sgn = T.sgn /\ argT.bits > T.bits) =>
        res = Ok(before)
\* ------------------------------------------------------------------------
\* Mixed-type, reverse and compound operators
\* ------------------------------------------------------------------------
MixedOps == {"add_mixed", "sub_mixed", "mul_mixed", "div_mixed", "mod_mixed",
             "add_assign_mixed", "sub_assign_mixed", "mul_assign_mixed",
             "div_assign_mixed", "mod_assign_mixed"}

RevOps == {"rev_add", "rev_sub", "rev_mul", "rev_div", "rev_mod"}

CompoundOps == {"add_assign", "sub_assign", "mul_assign", "div_assign",
                "mod_assign", "add_assign_mixed", "sub_assign_mixed",
                "mul_assign_mixed", "div_assign_mixed", "mod_assign_mixed"}

\* the same-type operator a reverse operator stands for
Forward(name, t, a, b) ==
    CASE name = "rev_add" -> op_add(t, a, b)
      [] name = "rev_sub" -> op_sub(t, a, b)
      [] name = "rev_mul" -> op_mul(t, a, b)
      [] name = "rev_div" -> op_div(t, a, b)
      [] name = "rev_mod" -> op_mod(t, a, b)

\* C11: a mixed-type arithmetic operator (x op u and x op= u) whose foreign
\* operand u is not a value of the receiver's type T fails with OverflowError
\* instead of operating on a truncated u.
C11_MixedRangeChecked ==
    (op \in MixedOps /\ ~InRange(T, arg)) => res.err = "OverflowError"

\* C12: each global reverse operator u op x has the result and the failure
\* kind of constructing a wrapper from u and applying the operator with it
\* as left operand and x as right operand.
C12_ReverseEquivalent ==
    op \in RevOps =>
        LET c == Construct(T, argT, arg)
        IN  IF c.err # "none" THEN res.err = c.err
            ELSE res = Forward(op, T, c.val, before)

\* C13: a compound assignment (same-type or mixed-type) that throws
\* OverflowError, DivisionByZeroError or ModuloByZeroError leaves the stored
\* value equal to the stored value before the call.
C13_FailureKeepsReceiver ==
    (/\ op \in CompoundOps
     /\ res.err \in {"OverflowError", "DivisionByZeroError", "ModuloByZeroError"})
        => value = before

C13_Witness ==
    /\ op = "add_assign_mixed"
    /\ res.err = "OverflowError"
    /\ before = Max(T)
    /\ arg = 1
    /\ value = before

\* ------------------------------------------------------------------------
\* Text
\* ------------------------------------------------------------------------
\* the bit patterns of UTF-8, as byte ranges: 0xxxxxxx, 110xxxxx, 1110xxxx,
\* 11110xxx announce a sequence of 1, 2, 3, 4 bytes; 10xxxxxx continues one
ExpectedLength(c) ==
    IF c \in 0..127 THEN 1
    ELSE IF c \in 192..223 THEN 2
    ELSE IF c \in 224..239 THEN 3
    ELSE IF c \in 240..247 THEN 4
    ELSE 0

Matches10(c) == c \in 128..191

\* every byte that is not 10xxxxxx matches a lead pattern and is followed by
\* exactly the continuation bytes it announces; every 10xxxxxx byte is one of
\* those
WellFormed(s) ==
    \A p \in 1..Len(s) :
        IF Matches10(s[p])
        THEN \E q \in 1..(p - 1) :
                /\ ExpectedLength(s[q]) > p - q
                /\ \A j \in (q + 1)..p : Matches10(s[j])
        ELSE /\ ExpectedLength(s[p]) >= 1
             /\ p + ExpectedLength(s[p]) - 1 <= Len(s)
             /\ \A k \in 1..(ExpectedLength(s[p]) - 1) : Matches10(s[p + k])

\* the positions of the bytes that start a codepoint
Starts(s) == {p \in 1..Len(s) : ~Matches10(s[p])}

\* the scalar value of the sequence starting at position p of a well-formed s
ValueAt(s, p) ==
    LET L == ExpectedLength(s[p])
    IN  CASE L = 1 -> s[p]
          [] L = 2 -> (s[p] - 192) * 64 + (s[p + 1] - 128)
          [] L = 3 -> (s[p] - 224) * 4096 + (s[p + 1] - 128) * 64
                        + (s[p + 2] - 128)
          [] L = 4 -> (s[p] - 240) * 262144 + (s[p + 1] - 128) * 4096
                        + (s[p + 2] - 128) * 64 + (s[p + 3] - 128)

\* the index-th codepoint of a well-formed s, index counted from 0
NthCodepoint(s, index) ==
    LET p == CHOOSE q \in Starts(s) :
                 Cardinality({r \in Starts(s) : r < q}) = index
    IN  ValueAt(s, p)

\* C14: the bytes held by a StringWrapper are valid UTF-8 in every reachable
\* state: no StringWrapper exists whose data fails is_valid_utf8.
C14_DataValid == is_valid_utf8(data)

\* C15: length() fails with EncodingError exactly when the bytes are not
\* well formed (a lead byte of no pattern, or a sequence without its
\* continuation bytes), and otherwise returns without error; <<0xFF>>,
\* <<0xC0>> and <<0xE0, 0x80, 0x41>> fail.
C15_LengthFailsIffMalformed ==
    op = "length" =>
        /\ res.err \in {"none", "EncodingError"}
        /\ res.err = "EncodingError" <=> ~WellFormed(data)
        /\ data \in {<<255>>, <<192>>, <<224, 128, 65>>} =>
               res.err = "EncodingError"

C15_Witness ==
    /\ op = "length"
    /\ data = <<224, 128, 65>>
    /\ res.err = "EncodingError"

\* C16: is_valid_utf8 never fails, returns true exactly when length()
\* completes without EncodingError and false exactly when length() fails.
C16_ValidIffDecodes ==
    op = "is_valid_utf8" =>
        /\ res.err = "none"
        /\ res.val = TRUE <=> length(data).err = "none"
        /\ res.val = FALSE <=> length(data).err = "EncodingError"

C16_Witness ==
    /\ op = "is_valid_utf8"
    /\ data = <<224, 128, 65>>
    /\ res = Ok(FALSE)

\* C17: for the shortest-form UTF-8 encoding of a sequence of scalar values,
\* is_valid_utf8 is true, length() is the number of values and at(i) is the
\* i-th value for every i below that number.
C17_RoundTrip ==
    \A e \in Encodings :
        data = e.bytes =>
            /\ op = "is_valid_utf8" => res = Ok(TRUE)
            /\ op = "length" => res = Ok(Len(e.values))
            /\ (op = "at" /\ arg < Len(e.values)) => res = Ok(e.values[arg + 1])

C17_Witness ==
    /\ op = "at"
    /\ data = Encode(<<233, 65536>>)
    /\ arg = 1
    /\ res = Ok(65536)

\* C18: for a valid UTF-8 string length() is the number of bytes that are
\* not continuation bytes and length_bytes() is the number of bytes; so
\* length() <= length_bytes(), with equality exactly when every byte is
\* below 0x80; "cafe" with e-acute has length 4 and 5 bytes.
C18_LengthCountsCodepoints ==
    is_valid_utf8(data) =>
        /\ op = "length" =>
              /\ res = Ok(Cardinality(Starts(data)))
              /\ res.val <= length_bytes(data).val
              /\ res.val = length_bytes(data).val <=>
                     \A p \in 1..Len(data) : data[p] < 128
              /\ data = Cafe => res = Ok(4)
        /\ op = "length_bytes" =>
              /\ res = Ok(Len(data))
              /\ data = Cafe => res = Ok(5)

C18_Witness ==
    /\ op = "length"
    /\ data = Cafe
    /\ res = Ok(4)

\* C19: for a valid UTF-8 string, at(i) returns the i-th codepoint when
\* i < length() and fails with StringIndexError, never EncodingError, when
\* i >= length(); at(10) on "cafe" with e-acute is a StringIndexError.
C19_AtIndexing ==
    (op = "at" /\ is_valid_utf8(data)) =>
        /\ IF arg < length(data).val
           THEN res = Ok(NthCodepoint(data, arg))
           ELSE res.err = "StringIndexError"
        /\ (data = Cafe /\ arg = 10) => res.err = "StringIndexError"

C19_Witness ==
    /\ op = "at"
    /\ data = Cafe
    /\ arg = 10
    /\ res.err = "StringIndexError"

\* C20: concatenating two valid UTF-8 strings never fails and yields a
\* valid UTF-8 string.
C20_ConcatValid ==
    (op = "concat" /\ is_valid_utf8(data) /\ is_valid_utf8(arg)) =>
        /\ res.err = "none"
        /\ is_valid_utf8(res.val)

C20_Witness ==
    /\ op = "concat"
    /\ data = Cafe
    /\ arg = <<240, 159, 140, 159>>
    /\ res = Ok(<<99, 97, 102, 195, 169, 240, 159, 140, 159>>)

\* ------------------------------------------------------------------------
\* Algebra, rendering, comparison and conversion
\* ------------------------------------------------------------------------
\* C21: where a + b does not overflow, (a + b) - b succeeds and equals a.
C21_AddSubRoundTrip ==
    (op = "add_sub" /\ InRange(T, before + arg)) => res = Ok(before)

C21_Witness ==
    /\ op = "add_sub"
    /\ T = ByteT
    /\ before = 100
    /\ arg = -128
    /\ res = Ok(100)

\* the characters of s are base-10 digits after an optional '-', with no
\* leading zero and no "-0"
IsDecimal(s) ==
    LET body == IF s # <<>> /\ s[1] = 45 THEN Tail(s) ELSE s
    IN  /\ body # <<>>
        /\ \A k \in 1..Len(body) : body[k] \in 48..57
        /\ Len(body) > 1 => body[1] # 48
        /\ body = <<48>> => s = body

RECURSIVE DigitsValue(_, _)
\* the number the digits of s denote, after the digits read so far (acc)
DigitsValue(s, acc) ==
    IF s = <<>> THEN acc ELSE DigitsValue(Tail(s), 10 * acc + (Head(s) - 48))

ParseDecimal(s) ==
    IF s[1] = 45 THEN -DigitsValue(Tail(s), 0) ELSE DigitsValue(s, 0)

\* C22: writing an integral wrapper to a stream produces the base-10 digits
\* of its value with its sign, for every representation including the 8-bit
\* ones.
C22_RendersDecimal ==
    op = "render" => (IsDecimal(res.val) /\ ParseDecimal(res.val) = before)

\* the relation k on the integers
Ordering(k, a, b) ==
    CASE k = "lt" -> a < b
      [] k = "gt" -> a > b
      [] k = "le" -> a <= b
      [] k = "ge" -> a >= b
      [] k = "eq" -> a = b
      [] k = "ne" -> a # b

\* C23: each comparison of two wrappers over T returns the integer ordering
\* of their values (so exactly one of <, ==, > holds and <=, >=, != agree),
\* and each reverse comparison u rel x returns what the wrapper constructed
\* from u compared with x returns.
C23_ComparisonOrder ==
    /\ op \in CmpKinds =>
          /\ res = Ok(Ordering(op, before, arg))
          /\ Cardinality({k \in {"lt", "eq", "gt"} :
                              op_cmp(k, T, before, arg)}) = 1
    /\ \A k \in CmpKinds :
          op = "rev_" \o k =>
              LET c == Construct(T, argT, arg)
              IN  /\ c.err = "none"
                  /\ res = Ok(op_cmp(k, T, c.val, before))

\* C24: a conversion whose source value is a value of the target
\* representation succeeds and preserves the value, for operator Target and
\* for espresso_integer::as, for every pair of integral types.
C24_RepresentableConverts ==
    (op \in {"cast", "as"} /\ InRange(argT, before)) => res = Ok(before)

\* ------------------------------------------------------------------------
\* Negation and shifts across widths
\* ------------------------------------------------------------------------
\* C26: unary minus returns the exact negation or fails with OverflowError,
\* for signed and unsigned T of every width; negating a non-zero value of
\* an unsigned representation fails.
C26_NegNeverWraps ==
    op = "neg" =>
        /\ res = Ok(-before) \/ res.err = "OverflowError"
        /\ (~T.sgn /\ before # 0) => res.err = "OverflowError"

\* C27: a shift by a count n with 0 <= n < bit-width(T) succeeds, for the
\* types narrower than int as for the others.
C27_InRangeShiftSucceeds ==
    (op \in {"shl", "shr"} /\ arg >= 0 /\ arg < T.bits) => res.err = "none"

\* ------------------------------------------------------------------------
\* Sequences of compound assignments
\* ------------------------------------------------------------------------
\* a / b and a % b on the integers, truncating toward zero
TruncQuot(a, b) ==
    IF (a < 0) # (b < 0) THEN -(Abs(a) \div Abs(b)) ELSE Abs(a) \div Abs(b)

TruncRem(a, b) == a - b * TruncQuot(a, b)

\* C25: along any sequence of compound assignments on one receiver, after
\* every successful step the stored value is the result of the operation
\* over the mathematical integers applied to the previous stored value; no
\* stored value is a wrapped result.
C25_SequenceExact ==
    res.err = "none" =>
        /\ op = "add_assign" => value = before + arg
        /\ op = "sub_assign" => value = before - arg
        /\ op = "mul_assign" =>
              (ProductInRange(T, before, arg) /\ value = before * arg)
        /\ op = "div_assign" => value = TruncQuot(before, arg)
        /\ op = "mod_assign" => value = TruncRem(before, arg)

C25_Witness ==
    /\ steps = 1
    /\ T = ByteT
    /\ op = "sub_assign"
    /\ before = 86
    /\ arg = 100
    /\ value = -14

\* ------------------------------------------------------------------------
\* The UTF-8 scans
\* ------------------------------------------------------------------------
\* C28: in the three scans the position i is at most n at every loop head,
\* and no byte at a position >= n is read.
C28_ScanInBounds ==
    /\ pc = "scanning" => scan.i <= Len(data)
    /\ scan.hi < Len(data)

C28_Witness ==
    /\ pc = "done"
    /\ op = "at"
    /\ data = <<65, 240, 128, 128>>
    /\ res.err = "EncodingError"
    /\ scan.i = 1
    /\ scan.hi = 1

\* C29: each iteration of a scan ends it or advances the position by 1 to
\* 4 bytes; a scan over n bytes runs at most n iterations and finishes.
C29_ScanTerminates ==
    /\ [][(pc = "scanning" /\ pc' = "scanning") =>
              (scan'.i - scan.i) \in 1..4]_scanvars
    /\ [](scan.fn # "none" => steps <= Len(data))
    /\ (pc = "scanning") ~> (pc = "done")

C29_Witness ==
    /\ pc = "done"
    /\ op = "length"
    /\ data = <<65, 195, 128, 65>>
    /\ steps = 3
    /\ res = Ok(3)

\* C30: at(i) succeeds only if length() succeeds and i < length(); when the
\* bytes are malformed anywhere, at(i) fails with EncodingError for every i.
C30_AtAgreesWithLength ==
    op = "at" =>
        /\ res.err = "none" =>
              (length(data).err = "none" /\ arg < length(data).val)
        /\ length(data).err = "EncodingError" => res.err = "EncodingError"

====
